---- MODULE Spec2Model ----
(***************************************************************************)
(* Phase Lag Index and Unbiased Squared Phase Lag Index of mne-cpp's       *)
(* connectivity library: PhaseLagIndex::phaseLagIndex / computePLI and     *)
(* UnbiasedSquaredPhaseLagIndex::unbiasedSquaredPhaseLagIndex /            *)
(* computeUnbiasedSquaredPLI, as one state machine per call.               *)
(*                                                                         *)
(* Numbers.  Samples are integers.  A spectrum value is a pair <<a, b>>    *)
(* standing for a + b*u, u the primitive root of unity of the FFT length   *)
(* with positive imaginary part (i for length 4, exp(2 pi i/3) for length  *)
(* 3), so the discrete Fourier transform of lengths 1..4 is exact.  A      *)
(* double holding a metric value is an extended rational <<n, d>> in       *)
(* lowest terms, d >= 0; d = 0 holds the IEEE results of a division by     *)
(* zero: <<1,0>> = +Inf, <<-1,0>> = -Inf, <<0,0>> = NaN.                    *)
(***************************************************************************)
EXTENDS Integers, Sequences, FiniteSets, TLC

\* ------------------------------------------------------------------ bounds

MaxTrials == 2
MaxChannels == 2

\* The channel signals the trials are built from (three samples each):
\* unit impulses at the first and at the last sample.
Signals == { <<1, 0, 0>>, <<0, 0, 1>> }

\* The FFT lengths a caller asks for: below, at and above the signal length.
NfftRequests == { 2, 3, 4 }

\* The request of a caller that leaves the length to the signal.
ShortNfft == CHOOSE n \in NfftRequests : \A m \in NfftRequests : n <= m

\* ------------------------------------------------------------- arithmetic

Abs(x) == IF x < 0 THEN -x ELSE x

RECURSIVE Gcd(_, _)
Gcd(a, b) == IF b = 0 THEN a ELSE Gcd(b, a % b)

\* The double n / d. A zero divisor gives the IEEE value: NaN, +Inf or -Inf.
Rat(n, d) ==
    IF d = 0 THEN << IF n > 0 THEN 1 ELSE IF n < 0 THEN -1 ELSE 0, 0 >>
    ELSE LET s == IF d < 0 THEN -1 ELSE 1
             g == Gcd(Abs(n), Abs(d))
         IN  << (s * n) \div g, (s * d) \div g >>

\* A function on 1..n as the tuple of its values.
AsSeq(f) == f \o << >>

RECURSIVE SumSeq(_)
SumSeq(s) == IF s = << >> THEN 0 ELSE Head(s) + SumSeq(Tail(s))

\* ---------------------------------------------------------------- spectra

\* Number of one-sided frequency bins of an FFT of length nfft.
NFreqs(nfft) == (nfft \div 2) + 1

\* exp(-2 pi i m / nfft) as a pair <<a, b>> = a + b*u (lengths 1..4).
Twiddle(nfft, m) ==
    CASE nfft = 1 -> << 1, 0 >>
      [] nfft = 2 -> IF m = 0 THEN << 1, 0 >> ELSE << -1, 0 >>
      [] nfft = 3 -> IF m = 0 THEN << 1, 0 >>
                     ELSE IF m = 1 THEN << -1, -1 >> ELSE << 0, 1 >>
      [] nfft = 4 -> IF m = 0 THEN << 1, 0 >>
                     ELSE IF m = 1 THEN << 0, -1 >>
                     ELSE IF m = 2 THEN << -1, 0 >> ELSE << 0, 1 >>

\* Spectral::generateTapers for the rectangular window: one taper of ones
\* of the signal length, with weight one.
GenerateTapers(iSignalLength) ==
    [ first |-> [ n \in 1..iSignalLength |-> 1 ], second |-> << 1 >> ]

\* Spectral::computeTaperedSpectra: the taper applied to the series, the
\* product zero-padded to nfft samples, and its one-sided transform.
ComputeTaperedSpectra(vecData, taper, nfft) ==
    LET x == AsSeq([ n \in 1..nfft |->
                       IF n <= Len(vecData) /\ n <= Len(taper)
                       THEN vecData[n] * taper[n] ELSE 0 ])
        part(f, c) ==
            SumSeq([ n \in 1..nfft |->
                       x[n] * Twiddle(nfft, ((f - 1) * (n - 1)) % nfft)[c] ])
    IN  AsSeq([ f \in 1..NFreqs(nfft) |-> << part(f, 1), part(f, 2) >> ])

\* Imaginary part, up to a positive factor, of the cross-spectrum
\* Spectral::csdFromTaperedSpectra(seed, target, ...) = seed * conj(target)
\* at bin f: Im((a + b u)(c + d conj(u))) = (b c - a d) Im(u), Im(u) > 0.
CsdImag(seed, target, f) ==
    seed[f][2] * target[f][1] - seed[f][1] * target[f][2]

\* Line 323: the mean of a row taken off each of its samples.  The row is
\* held multiplied by its length, which keeps it integral and leaves the
\* sign of every cross-spectrum as it is.
RemoveMean(row) ==
    AsSeq([ n \in 1..Len(row) |-> Len(row) * row[n] - SumSeq(row) ])

\* ----------------------------------------------------------------- inputs

Metrics == { "PLI", "USPLI" }

\* A trial: one signal per channel, 1..MaxChannels channels.
Trials == UNION { [ 1..n -> Signals ] : n \in 1..MaxChannels }

TrialLists == UNION { [ 1..t -> Trials ] : t \in 0..MaxTrials }

\* The lists whose trials all have the channel count of the first.
UniformTrialLists ==
    { l \in TrialLists : \A t \in 1..Len(l) : Len(l[t]) = Len(l[1]) }

\* A trial recorded one sample short: every channel without its last sample.
ShortTrial(trial) ==
    [ j \in 1..Len(trial) |-> SubSeq(trial[j], 1, Len(trial[j]) - 1) ]

\* The lists of two or more trials of one channel count whose last trial
\* has one sample less than the others.
RaggedTrialLists ==
    { [ l EXCEPT ![Len(l)] = ShortTrial(l[Len(l)]) ] :
        l \in { u \in UniformTrialLists : Len(u) >= 2 } }

\* The vertex matrix with R rows; row r is at (r, 2r, 3r), off the origin.
\* A call is made with a well-formed list, geometry (of any row count) and
\* the FFT length left to the signal, or with any list, no geometry and any
\* of the FFT lengths, or with a list of differing sample counts, no
\* geometry and the FFT length left to the signal.
VertMatrix(R) == [ r \in 1..R |-> << r, 2 * r, 3 * r >> ]

Origin == << 0, 0, 0 >>

\* ------------------------------------------------------------------ state

VARIABLES
    metric,          \* which entry point was called
    matDataList,     \* argument: the trial list
    matVert,         \* argument: the vertex positions
    iNfftArg,        \* argument: the requested FFT length
    pc,              \* position in the call
    finalNetwork,    \* [name, nodes, edges]
    rowVert,         \* phaseLagIndex's local position vector
    iNfft,           \* computePLI: the FFT length in use
    tapers,          \* computePLI: the generated tapers
    iNRows,          \* computePLI: channel count of the first trial
    vecCsdAvg,       \* computePLI: the sign accumulators
    iTrial,          \* computePLI: trials accumulated so far
    vecPLI,          \* computePLI's result
    vecUnbiasedSquaredPLI,  \* computeUnbiasedSquaredPLI's result
    calls,           \* history: the functions entered
    accessed         \* history: the trials (1-based) read so far

vars == << metric, matDataList, matVert, iNfftArg, pc, finalNetwork, rowVert,
           iNfft, tapers, iNRows, vecCsdAvg, iTrial, vecPLI,
           vecUnbiasedSquaredPLI, calls, accessed >>

inputs == << metric, matDataList, matVert, iNfftArg >>

computeLocals == << iNfft, tapers, iNRows, vecCsdAvg, iTrial >>

Init ==
    /\ metric \in Metrics
    /\ \/ /\ matDataList \in UniformTrialLists
          /\ matVert \in { VertMatrix(R) : R \in 0..MaxChannels }
          /\ iNfftArg = ShortNfft
       \/ /\ matDataList \in TrialLists
          /\ matVert = VertMatrix(0)
          /\ iNfftArg \in NfftRequests
       \/ /\ matDataList \in RaggedTrialLists
          /\ matVert = VertMatrix(0)
          /\ iNfftArg = ShortNfft
    /\ pc = "start"
    /\ finalNetwork = [ name |-> "", nodes |-> << >>, edges |-> << >> ]
    /\ rowVert = Origin
    /\ iNfft = 0
    /\ tapers = GenerateTapers(0)
    /\ iNRows = 0
    /\ vecCsdAvg = << >>
    /\ iTrial = 0
    /\ vecPLI = << >>
    /\ vecUnbiasedSquaredPLI = << >>
    /\ calls = { }
    /\ accessed = { }

\* ---------------------------------------------------- phaseLagIndex, part 1

NetworkName(m) ==
    IF m = "PLI" THEN "Phase Lag Index" ELSE "Unbiased Squared Phase Lag Index"

EntryPoint(m) ==
    IF m = "PLI" THEN "phaseLagIndex" ELSE "unbiasedSquaredPhaseLagIndex"

\* matDataList.first().rows(), of a non-empty list.
FirstRows == Len(matDataList[1])

\* Faulty variant: the empty list is not recognised.
EmptyNever(list) == FALSE

\* matDataList.empty()
Empty(list) == Len(list) = 0

\* The list is empty: the network is returned as constructed.
EnterEmpty ==
    /\ pc = "start"
    /\ Empty(matDataList)
    /\ finalNetwork' = [ name |-> NetworkName(metric),
                         nodes |-> << >>, edges |-> << >> ]
    /\ calls' = calls \cup { EntryPoint(metric) }
    /\ pc' = "done"
    /\ UNCHANGED << inputs, rowVert, computeLocals, vecPLI,
                    vecUnbiasedSquaredPLI, accessed >>

EnterNonEmpty ==
    /\ pc = "start"
    /\ ~Empty(matDataList)
    /\ finalNetwork' = [ name |-> NetworkName(metric),
                         nodes |-> << >>, edges |-> << >> ]
    /\ calls' = calls \cup { EntryPoint(metric) }
    /\ rowVert' = Origin
    /\ accessed' = accessed \cup { 1 }
    /\ pc' = "nodes"
    /\ UNCHANGED << inputs, computeLocals, vecPLI, vecUnbiasedSquaredPLI >>

\* The body of the node loop's if: rowVert after iteration i (0-based).
NodeVert(i, rv, vert) ==
    IF Len(vert) # 0 /\ i < Len(vert) THEN vert[i + 1] ELSE rv

\* One iteration of the node loop.
CreateNode ==
    /\ pc = "nodes"
    /\ Len(finalNetwork.nodes) < FirstRows
    /\ LET i == Len(finalNetwork.nodes)
           v == NodeVert(i, rowVert, matVert)
       IN  /\ rowVert' = v
           /\ finalNetwork' =
                [ finalNetwork EXCEPT
                    !.nodes = Append(@, [ id |-> i, vert |-> v,
                                          edges |-> << >> ]) ]
    /\ UNCHANGED << inputs, pc, computeLocals, vecPLI,
                    vecUnbiasedSquaredPLI, calls, accessed >>

\* ------------------------------------------------------------- computePLI

\* Faulty variant: the requested FFT length is used as it is.
EffectiveNfftAsRequested(n, iSignalLength) == n

\* Lines 301-304: the FFT length is raised to the first trial's length.
EffectiveNfft(n, iSignalLength) ==
    IF n < iSignalLength THEN iSignalLength ELSE n

ZeroAccumulators(rows, freqs) ==
    [ j \in 1..rows |-> [ k \in 1..rows |-> [ f \in 1..freqs |-> 0 ] ] ]

\* The node loop is over: computePLI is entered (from
\* computeUnbiasedSquaredPLI for the unbiased metric) and runs to its
\* trial loop.
CallCompute ==
    /\ pc = "nodes"
    /\ Len(finalNetwork.nodes) = FirstRows
    /\ LET iSignalLength == Len(matDataList[1][1])
       IN  /\ iNfft' = EffectiveNfft(iNfftArg, iSignalLength)
           /\ tapers' = GenerateTapers(iSignalLength)
    /\ iNRows' = FirstRows
    /\ vecCsdAvg' = ZeroAccumulators(FirstRows, NFreqs(iNfft'))
    /\ iTrial' = 0
    /\ calls' = calls \cup
                (IF metric = "PLI" THEN { "computePLI" }
                 ELSE { "computeUnbiasedSquaredPLI", "computePLI" })
    /\ pc' = "trials"
    /\ UNCHANGED << inputs, finalNetwork, rowVert, vecPLI,
                    vecUnbiasedSquaredPLI, accessed >>

\* Faulty variant: a sign that counts a zero as positive.
CwiseSignNoZero(x) == IF x >= 0 THEN 1 ELSE -1

\* Eigen's cwiseSign on one coefficient: -1, 0 or +1; sign(0) = 0.
CwiseSign(x) == IF x > 0 THEN 1 ELSE IF x < 0 THEN -1 ELSE 0

\* Faulty variant: the imaginary part itself is added, its sign not taken.
AccumulateRaw(acc, im) == acc + im

\* Line 340: the sign of the cross-spectrum's imaginary part is added.
Accumulate(acc, im) == acc + CwiseSign(im)

\* Lines 327-331 for one trial: the tapered spectrum of rows 0..nRows-1.
TrialSpectra(rows, nRows, taper, nfft) ==
    AsSeq([ j \in 1..nRows |-> ComputeTaperedSpectra(rows[j], taper, nfft) ])

\* Lines 334-341 for one trial: the signs of all pairs added to the
\* accumulators.
AccumulateTrial(acc, vecTapSpectra, nRows, nFreqs) ==
    [ j \in 1..nRows |->
      [ k \in 1..nRows |->
        [ f \in 1..nFreqs |->
            Accumulate(acc[j][k][f],
                       CsdImag(vecTapSpectra[j], vecTapSpectra[k], f)) ] ] ]

\* Faulty variant: a window of the trial's own sample count.
TrialWindowOwn(t) ==
    LET n == Len(matDataList[t][1])
    IN  [ nfft |-> EffectiveNfft(iNfftArg, n),
          taper |-> GenerateTapers(n).first ]

\* Line 329: the FFT length and the taper handed to computeTaperedSpectra
\* for the rows of trial t: those set up before the loop, for every t.
TrialWindow(t) == [ nfft |-> iNfft, taper |-> tapers.first ]

\* One iteration of the trial loop.  A trial with fewer rows than the first
\* is read past its last row: what such a read yields is not defined, and
\* pad holds it.
ProcessTrial ==
    /\ pc = "trials"
    /\ iTrial < Len(matDataList)
    /\ LET trial == matDataList[iTrial + 1]
           matInputData == [ j \in 1..Len(trial) |-> RemoveMean(trial[j]) ]
       IN  \E pad \in [ (Len(trial) + 1)..iNRows -> Signals ] :
             LET rows == [ j \in 1..iNRows |->
                             IF j <= Len(trial) THEN matInputData[j]
                             ELSE pad[j] ]
                 w == TrialWindow(iTrial + 1)
             IN  \E vecTapSpectra \in
                       { TrialSpectra(rows, iNRows, w.taper, w.nfft) } :
                   vecCsdAvg' = AccumulateTrial(vecCsdAvg, vecTapSpectra,
                                                iNRows, NFreqs(iNfft))
    /\ iTrial' = iTrial + 1
    /\ accessed' = accessed \cup { iTrial + 1 }
    /\ UNCHANGED << inputs, pc, finalNetwork, rowVert, iNfft, tapers, iNRows,
                    vecPLI, vecUnbiasedSquaredPLI, calls >>

\* The same read in a build that keeps Eigen's index and size assertions:
\* the program is aborted.  So it is when a row's sample count is not the
\* taper's, which the product of row and taper requires.
ProcessTrialAbort ==
    /\ pc = "trials"
    /\ iTrial < Len(matDataList)
    /\ \/ Len(matDataList[iTrial + 1]) < iNRows
       \/ Len(matDataList[iTrial + 1][1]) # Len(tapers.first)
    /\ pc' = "aborted"
    /\ accessed' = accessed \cup { iTrial + 1 }
    /\ UNCHANGED << inputs, finalNetwork, rowVert, computeLocals, vecPLI,
                    vecUnbiasedSquaredPLI, calls >>

\* Faulty variant: the absolute value is not taken.
NormalizeNoAbs(acc, nTrials) == Rat(acc, nTrials)

\* Line 346: |accumulator| / number of trials.
NormalizePLI(acc, nTrials) == Rat(Abs(acc), nTrials)

\* Lines 344-348: the trial loop is over, computePLI returns.
Finalize ==
    /\ pc = "trials"
    /\ iTrial = Len(matDataList)
    /\ vecPLI' = [ i \in 1..iNRows |->
                   [ k \in 1..iNRows |->
                     [ f \in 1..NFreqs(iNfft) |->
                         NormalizePLI(vecCsdAvg[i][k][f],
                                      Len(matDataList)) ] ] ]
    /\ pc' = IF metric = "PLI" THEN "edges" ELSE "unbias"
    /\ UNCHANGED << inputs, finalNetwork, rowVert, computeLocals,
                    vecUnbiasedSquaredPLI, calls, accessed >>

\* ---------------------------------------------- computeUnbiasedSquaredPLI

\* Faulty variant: the PLI is not squared.
UnbiasedNoSquare(p, iNTrials) ==
    Rat(iNTrials * p[1] - p[2], p[2] * (iNTrials - 1))

\* Faulty variant: a negative estimate is replaced by zero.
UnbiasedNonNegative(p, iNTrials) ==
    IF iNTrials * p[1] * p[1] < p[2] * p[2] THEN << 0, 1 >>
    ELSE Rat(iNTrials * p[1] * p[1] - p[2] * p[2],
             p[2] * p[2] * (iNTrials - 1))

\* Line 150, one coefficient: (T * p^2 - 1) / (T - 1), p = n/d finite.
Unbiased(p, iNTrials) ==
    Rat(iNTrials * p[1] * p[1] - p[2] * p[2],
        p[2] * p[2] * (iNTrials - 1))

\* Lines 149-152: every matrix of the PLI replaced by its unbiased form.
Unbias ==
    /\ pc = "unbias"
    /\ vecUnbiasedSquaredPLI' =
         [ j \in 1..iNRows |->
           [ k \in 1..Len(vecPLI[j]) |->
             [ f \in 1..Len(vecPLI[j][k]) |->
                 Unbiased(vecPLI[j][k][f], Len(matDataList)) ] ] ]
    /\ pc' = "edges"
    /\ UNCHANGED << inputs, finalNetwork, rowVert, computeLocals, vecPLI,
                    calls, accessed >>

\* ---------------------------------------------------- phaseLagIndex, part 2

\* The tensor the edges are built from.
Tensor == IF metric = "PLI" THEN vecPLI ELSE vecUnbiasedSquaredPLI

\* Faulty variant: the edge's end points are exchanged.
MakeEdgeSwapped(i, j, tensor) ==
    [ start |-> j, end |-> i, weight |-> tensor[i + 1][j + 1] ]

\* The edge made in iteration (i, j) of the edge loops (0-based).
MakeEdge(i, j, tensor) ==
    [ start |-> i, end |-> j, weight |-> tensor[i + 1][j + 1] ]

\* Faulty variant: the inner loop starts at the diagonal (upper triangle only).
EdgeRowUpper(i, n, tensor) ==
    [ j \in 1..(n - i) |-> MakeEdge(i, i + j - 1, tensor) ]

\* The inner edge loop of outer iteration i: the edges (i, 0) .. (i, n-1).
EdgeRow(i, n, tensor) == [ j \in 1..n |-> MakeEdge(i, j - 1, tensor) ]

\* One iteration of the outer edge loop: each edge of the inner loop is
\* appended to its start node and to the network.
AddEdges ==
    /\ pc = "edges"
    /\ Len(finalNetwork.edges) < Len(Tensor) * FirstRows
    /\ LET p == Len(finalNetwork.edges)
           i == p \div FirstRows
       IN  finalNetwork' =
             [ finalNetwork EXCEPT
                 !.nodes[i + 1].edges =
                     @ \o [ j \in 1..FirstRows |-> p + j - 1 ],
                 !.edges = @ \o EdgeRow(i, FirstRows, Tensor) ]
    /\ UNCHANGED << inputs, pc, rowVert, computeLocals, vecPLI,
                    vecUnbiasedSquaredPLI, calls, accessed >>

Return ==
    /\ pc = "edges"
    /\ Len(finalNetwork.edges) = Len(Tensor) * FirstRows
    /\ pc' = "done"
    /\ UNCHANGED << inputs, finalNetwork, rowVert, computeLocals, vecPLI,
                    vecUnbiasedSquaredPLI, calls, accessed >>

Next ==
    \/ EnterEmpty
    \/ EnterNonEmpty
    \/ CreateNode
    \/ CallCompute
    \/ ProcessTrial
    \/ ProcessTrialAbort
    \/ Finalize
    \/ Unbias
    \/ AddEdges
    \/ Return

Spec == Init /\ [][Next]_vars

TypeOK ==
    /\ pc \in { "start", "nodes", "trials", "unbias", "edges", "done",
                "aborted" }
    /\ iTrial \in 0..Len(matDataList)

\* ----------------------------------------------------------------- claims

\* Every trial has the channel count of the first.
UniformShape ==
    \A t \in 1..Len(matDataList) : Len(matDataList[t]) = Len(matDataList[1])

\* computePLI has returned and no edge has been built yet.
ComputePLIReturned ==
    /\ pc \in { "unbias", "edges" }
    /\ finalNetwork.edges = << >>

\* s_t(i,k,f) for all pairs and bins of one trial: the sign, -1, 0 or +1,
\* of the imaginary part of the cross-spectrum of channels i and k.
TrialSigns(trial) ==
    LET sp == AsSeq([ j \in 1..Len(trial) |->
                  ComputeTaperedSpectra(RemoveMean(trial[j]), tapers.first,
                                        iNfft) ])
    IN  AsSeq([ i \in 1..Len(trial) |->
          AsSeq([ k \in 1..Len(trial) |->
            AsSeq([ f \in 1..NFreqs(iNfft) |->
                LET im == CsdImag(sp[i], sp[k], f)
                IN  IF im > 0 THEN 1 ELSE IF im < 0 THEN -1 ELSE 0 ]) ]) ])

TrialSign(trial, i, k, f) == TrialSigns(trial)[i][k][f]

\* The sum of s_t(i,k,f) over the first n trials, s the per-trial signs.
RECURSIVE SignSum(_, _, _, _, _)
SignSum(s, n, i, k, f) ==
    IF n = 0 THEN 0 ELSE SignSum(s, n - 1, i, k, f) + s[n][i][k][f]

Pairs == (1..iNRows) \X (1..iNRows)

Bins == 1..NFreqs(iNfft)

\* C1: for a non-empty list of T trials of N channels each, computePLI
\* returns N matrices whose entry (i,k,f) is |sum over trials of
\* s_t(i,k,f)| / T, s_t the sign (-1, 0, +1) of the imaginary part of trial
\* t's cross-spectrum; during the loop the accumulator holds the sum over
\* the trials done, a zero imaginary part adding 0.
C1_PLIFormula ==
    (UniformShape /\ (pc = "trials" \/ ComputePLIReturned)) =>
      LET s == AsSeq([ t \in 1..Len(matDataList) |->
                         TrialSigns(matDataList[t]) ])
      IN
        /\ pc = "trials" =>
             \A q \in Pairs : \A f \in Bins :
               vecCsdAvg[q[1]][q[2]][f] = SignSum(s, iTrial, q[1], q[2], f)
        /\ ComputePLIReturned =>
             /\ Len(vecPLI) = Len(matDataList[1])
             /\ \A q \in Pairs : \A f \in Bins :
                  LET S == SignSum(s, Len(matDataList), q[1], q[2], f)
                      v == vecPLI[q[1]][q[2]][f]
                  IN  /\ v[2] > 0
                      /\ v[1] * Len(matDataList)
                           = v[2] * (IF S < 0 THEN -S ELSE S)

\* C1's case: two trials of two channels, one with a positive or negative
\* sign for the pair (0,1) at some bin and one with a zero sign there; the
\* PLI of that entry is 1/2.
C1_Witness ==
    /\ ComputePLIReturned
    /\ UniformShape
    /\ Len(matDataList) = 2
    /\ iNRows = 2
    /\ \E f \in Bins :
         /\ TrialSign(matDataList[1], 1, 2, f) # 0
         /\ TrialSign(matDataList[2], 1, 2, f) = 0
         /\ vecPLI[1][2][f] = << 1, 2 >>

\* C2: for T >= 2 trials computeUnbiasedSquaredPLI returns, for every
\* pair and bin, exactly (T * p^2 - 1) / (T - 1), p being computePLI's
\* value there; for T = 2 and p = 1/2 that is -1/2.
C2_UnbiasedFormula ==
    (metric = "USPLI" /\ pc \in { "edges", "done" } /\ Len(matDataList) >= 2) =>
      /\ Len(vecUnbiasedSquaredPLI) = Len(vecPLI)
      /\ \A q \in Pairs : \A f \in Bins :
           LET T == Len(matDataList)
               p == vecPLI[q[1]][q[2]][f]
               u == vecUnbiasedSquaredPLI[q[1]][q[2]][f]
           IN  /\ u[2] > 0
               /\ u[1] * (p[2] * p[2] * (T - 1))
                    = u[2] * (T * p[1] * p[1] - p[2] * p[2])
               /\ (T = 2 /\ p = << 1, 2 >>) => u = << -1, 2 >>

\* C2's case: two trials, a pair with PLI 1/2 and unbiased value -1/2.
C2_Witness ==
    /\ metric = "USPLI"
    /\ pc = "done"
    /\ Len(matDataList) = 2
    /\ \E q \in Pairs : \E f \in Bins :
         /\ vecPLI[q[1]][q[2]][f] = << 1, 2 >>
         /\ vecUnbiasedSquaredPLI[q[1]][q[2]][f] = << -1, 2 >>

\* A double that is neither NaN nor an infinity.
IsFinite(v) == v[2] # 0

\* The weights of all edges of the network are finite numbers.
WeightsFinite ==
    \A e \in 1..Len(finalNetwork.edges) :
      \A f \in 1..Len(finalNetwork.edges[e].weight) :
        IsFinite(finalNetwork.edges[e].weight[f])

\* C3: the unbiased estimator called with exactly one trial fails with
\* InvalidTrialCount: it never divides by T - 1 = 0 (the debiasing step is
\* never run) and never returns a tensor or a Network with non-finite
\* weights.
C3_InvalidTrialCount ==
    (metric = "USPLI" /\ Len(matDataList) = 1) =>
      /\ vecUnbiasedSquaredPLI = << >>
      /\ pc # "done"
      /\ WeightsFinite

\* Some trial has another channel count than the first.
ShapeMismatch == ~UniformShape

\* C4: with a trial whose channel count differs from the first trial's,
\* the call fails with ShapeMismatch before any node is created, any
\* spectrum computed or any accumulator updated, and no trial is indexed
\* outside its rows.
C4_ShapeMismatchFailsFast ==
    (Len(matDataList) > 0 /\ ShapeMismatch) =>
      /\ finalNetwork.nodes = << >>
      /\ vecCsdAvg = << >>
      /\ iTrial = 0
      /\ pc \notin { "trials", "unbias", "edges", "done", "aborted" }

\* C5: with an empty trial list both entry points return, without an
\* error, a Network with no nodes and no edges and the metric's name;
\* computePLI and computeUnbiasedSquaredPLI are not entered and no trial
\* is read.
C5_EmptyInput ==
    Len(matDataList) = 0 =>
      /\ pc \in { "start", "done" }
      /\ finalNetwork.nodes = << >>
      /\ finalNetwork.edges = << >>
      /\ "computePLI" \notin calls
      /\ "computeUnbiasedSquaredPLI" \notin calls
      /\ accessed = { }
      /\ pc = "done" =>
           /\ metric = "PLI" => finalNetwork.name = "Phase Lag Index"
           /\ metric = "USPLI" =>
                finalNetwork.name = "Unbiased Squared Phase Lag Index"

\* C5's case: the unbiased entry point has returned for an empty list.
C5_Witness ==
    /\ Len(matDataList) = 0
    /\ metric = "USPLI"
    /\ pc = "done"
    /\ finalNetwork.name = "Unbiased Squared Phase Lag Index"

\* C6: node i carries the position of row i of the vertex matrix when
\* i < R, and the origin when R = 0 or i >= R.
C6_NodePositions ==
    \A n \in 1..Len(finalNetwork.nodes) :
      finalNetwork.nodes[n].vert =
        IF n <= Len(matVert) THEN matVert[n] ELSE Origin

\* C7: for a non-empty list with N channels the returned Network has
\* exactly N nodes and N*N edges: one for every ordered pair (i,j), the
\* self-pairs included, and none twice.
C7_EdgeCardinality ==
    (pc = "done" /\ Len(matDataList) > 0) =>
      LET N == Len(matDataList[1])
          E == finalNetwork.edges
      IN  /\ Len(finalNetwork.nodes) = N
          /\ Len(E) = N * N
          /\ { << E[e].start, E[e].end >> : e \in 1..Len(E) }
               = (0..(N - 1)) \X (0..(N - 1))
          /\ \A a, b \in 1..Len(E) :
               (E[a].start = E[b].start /\ E[a].end = E[b].end) => a = b

\* C7's case: a two-channel call has returned with four edges.
C7_Witness ==
    /\ pc = "done"
    /\ Len(matDataList) > 0
    /\ Len(matDataList[1]) = 2
    /\ Len(finalNetwork.edges) = 4
    /\ Len(finalNetwork.nodes) = 2

\* C8: the N nodes are appended in channel order 0..N-1 before the first
\* edge; the edge at position i*N + j goes from node i to node j and its
\* weight is row j of tensor element i, one value per frequency bin.
C8_AssemblyOrder ==
    /\ \A n \in 1..Len(finalNetwork.nodes) : finalNetwork.nodes[n].id = n - 1
    /\ finalNetwork.edges # << >> =>
         LET N == Len(matDataList[1])
         IN  /\ Len(finalNetwork.nodes) = N
             /\ \A e \in 1..Len(finalNetwork.edges) :
                  LET i == (e - 1) \div N
                      j == (e - 1) % N
                      edge == finalNetwork.edges[e]
                  IN  /\ edge.start = i
                      /\ edge.end = j
                      /\ edge.weight = Tensor[i + 1][j + 1]
                      /\ Len(edge.weight) = NFreqs(iNfft)

\* C8's case: a returned two-channel network whose edge (0,1) carries
\* another weight vector than its edge (0,0).
C8_Witness ==
    /\ pc = "done"
    /\ Len(finalNetwork.edges) = 4
    /\ finalNetwork.edges[2].start = 0
    /\ finalNetwork.edges[2].end = 1
    /\ finalNetwork.edges[2].weight # finalNetwork.edges[1].weight

\* C9: the PLI computePLI returns is symmetric:
\* PLI(i,j,f) = PLI(j,i,f) for all pairs and bins.
C9_Symmetry ==
    pc \in { "unbias", "edges", "done" } =>
      \A q \in Pairs : \A f \in Bins :
        vecPLI[q[1]][q[2]][f] = vecPLI[q[2]][q[1]][f]

\* C9's case: two channels whose per-trial signs are opposite for (0,1)
\* and (1,0), one trial with a zero sign, and a non-zero PLI.
C9_Witness ==
    /\ ComputePLIReturned
    /\ UniformShape
    /\ iNRows = 2
    /\ Len(matDataList) = 2
    /\ \E f \in Bins :
         /\ TrialSign(matDataList[1], 1, 2, f) = 1
         /\ TrialSign(matDataList[1], 2, 1, f) = -1
         /\ TrialSign(matDataList[2], 1, 2, f) = 0
         /\ vecPLI[1][2][f] = << 1, 2 >>
         /\ vecPLI[2][1][f] = << 1, 2 >>

\* C10: after t trials every accumulator entry lies in [-t, t], and every
\* value computePLI returns lies in [0, 1].
C10_Range ==
    /\ pc = "trials" =>
         \A q \in Pairs : \A f \in Bins :
           /\ -iTrial <= vecCsdAvg[q[1]][q[2]][f]
           /\ vecCsdAvg[q[1]][q[2]][f] <= iTrial
    /\ pc \in { "unbias", "edges", "done" } =>
         \A q \in Pairs : \A f \in Bins :
           LET v == vecPLI[q[1]][q[2]][f]
           IN  /\ v[2] > 0
               /\ 0 <= v[1]
               /\ v[1] <= v[2]

\* C10's case: both ends of the range are taken: an accumulator at -t
\* after t = 2 trials, and returned values 0 and 1.
C10_Witness ==
    /\ pc = "done"
    /\ Len(matDataList) = 2
    /\ \E q \in Pairs : \E f \in Bins : vecCsdAvg[q[1]][q[2]][f] = -2
    /\ \E q \in Pairs : \E f \in Bins : vecPLI[q[1]][q[2]][f] = << 1, 1 >>
    /\ \E q \in Pairs : \E f \in Bins : vecPLI[q[1]][q[2]][f] = << 0, 1 >>

\* C11: the self-pair PLI(i,i,f) that computePLI returns is well defined
\* and equals 0 for every channel i and bin f, whatever the number of
\* trials: the cross-spectrum of a channel with itself has a zero
\* imaginary part, whose sign adds 0 to the accumulator in every trial.
C11_SelfPairZero ==
    /\ pc = "trials" =>
         \A i \in 1..iNRows : \A f \in Bins : vecCsdAvg[i][i][f] = 0
    /\ pc \in { "unbias", "edges", "done" } =>
         \A i \in 1..iNRows : \A f \in Bins : vecPLI[i][i][f] = << 0, 1 >>

\* C11's case: two trials of two channels have been accumulated, the pair
\* (0,1) has the PLI 1 at some bin, and both self-pairs have 0 there.
C11_Witness ==
    /\ ComputePLIReturned
    /\ Len(matDataList) = 2
    /\ iNRows = 2
    /\ \E f \in Bins :
         /\ vecPLI[1][2][f] = << 1, 1 >>
         /\ vecPLI[1][1][f] = << 0, 1 >>
         /\ vecPLI[2][2][f] = << 0, 1 >>

\* No trial has fewer channels than the first: no row is read out of range.
NoShortTrial(list) == \A t \in 1..Len(list) : Len(list[t]) >= Len(list[1])

\* The accumulators of computePLI after the first t trials of list.
RECURSIVE AccumulatedOver(_, _, _, _, _)
AccumulatedOver(list, t, nRows, taper, nfft) ==
    IF t = 0 THEN ZeroAccumulators(nRows, NFreqs(nfft))
    ELSE LET acc == AccumulatedOver(list, t - 1, nRows, taper, nfft)
             rows == [ j \in 1..nRows |-> RemoveMean(list[t][j]) ]
             sp == TrialSpectra(rows, nRows, taper, nfft)
             sum == AccumulateTrial(acc, sp, nRows, NFreqs(nfft))
         IN  AsSeq([ j \in 1..nRows |->
               AsSeq([ k \in 1..nRows |-> AsSeq(sum[j][k]) ]) ])

\* What computePLI returns for a list without short trials and the
\* requested FFT length n.
ComputePLIOf(list, n) ==
    LET iSignalLength == Len(list[1][1])
        nfft == EffectiveNfft(n, iSignalLength)
        acc == AccumulatedOver(list, Len(list), Len(list[1]),
                               GenerateTapers(iSignalLength).first, nfft)
    IN  [ i \in 1..Len(list[1]) |->
          [ k \in 1..Len(list[1]) |->
            [ f \in 1..NFreqs(nfft) |->
                NormalizePLI(acc[i][k][f], Len(list)) ] ] ]

\* C12: with a first trial of L samples and a requested FFT length n < L,
\* computePLI returns the tensor it returns for n = L, with
\* floor(L/2) + 1 bins; the length is raised once, before the first trial,
\* and neither it nor the bin count changes between trials.
C12_NfftFloor ==
    ("computePLI" \in calls /\ pc # "aborted") =>
      LET L == Len(matDataList[1][1])
      IN  /\ iNfft = (IF iNfftArg < L THEN L ELSE iNfftArg)
          /\ \A q \in Pairs : Len(vecCsdAvg[q[1]][q[2]]) = NFreqs(iNfft)
          /\ (iNfftArg < L /\ ComputePLIReturned) =>
               /\ \A q \in Pairs : Len(vecPLI[q[1]][q[2]]) = (L \div 2) + 1
               /\ NoShortTrial(matDataList) =>
                    vecPLI = ComputePLIOf(matDataList, L)

\* C12's case: a length below the three samples of the first trial was
\* asked for, two trials of two channels were accumulated with length 3,
\* and the tensor returned has the value 1/2 at a bin of the pair (0,1).
C12_Witness ==
    /\ ComputePLIReturned
    /\ iNfftArg < Len(matDataList[1][1])
    /\ iNfft = Len(matDataList[1][1])
    /\ Len(matDataList) = 2
    /\ iNRows = 2
    /\ \E f \in Bins : vecPLI[1][2][f] = << 1, 2 >>
    /\ Len(vecPLI[1][2]) = 2

\* Number of samples of trial t.
Samples(t) == Len(matDataList[t][1])

\* Some trial has another sample count than the first.
SampleCountsDiffer ==
    \E t \in 1..Len(matDataList) : Samples(t) # Samples(1)

\* C13 as stated: when the trials have different sample counts, each trial
\* t is processed in a window of its own: the FFT length and the taper
\* length used for trial t are max(requested, samples of trial t) and the
\* samples of trial t, not lengths taken from the first trial.
C13_OwnWindowPerTrial ==
    (pc = "trials" /\ SampleCountsDiffer) =>
      \A t \in 1..Len(matDataList) :
        /\ TrialWindow(t).nfft =
             (IF iNfftArg < Samples(t) THEN Samples(t) ELSE iNfftArg)
        /\ Len(TrialWindow(t).taper) = Samples(t)

\* C13, amended: when the trials have different sample counts, every trial
\* is still processed in the one window set up before the loop: the FFT
\* length used for each trial is max(requested, samples of the first
\* trial) and the taper has the first trial's sample count.
C13_FirstTrialWindow ==
    (pc = "trials" /\ SampleCountsDiffer) =>
      \A t \in 1..Len(matDataList) :
        /\ TrialWindow(t).nfft =
             (IF iNfftArg < Samples(1) THEN Samples(1) ELSE iNfftArg)
        /\ Len(TrialWindow(t).taper) = Samples(1)

\* C13's case: a last trial of two samples, after a first of three, has
\* been accumulated with the FFT length 3 and the taper of three samples.
C13_Witness ==
    /\ pc = "trials"
    /\ iTrial = Len(matDataList)
    /\ Samples(1) = 3
    /\ Samples(iTrial) = 2
    /\ iNfftArg = 2
    /\ TrialWindow(iTrial).nfft = 3
    /\ Len(TrialWindow(iTrial).taper) = 3
    /\ iTrial \in accessed

\* The trial lists that hold the trials of list in another order.
Reorderings(list) ==
    { [ t \in 1..Len(list) |-> list[p[t]] ] :
        p \in Permutations(1..Len(list)) }

\* C14: what computePLI returns does not depend on the order of the
\* trials: for every permutation of the trial list the call returns the
\* tensor of the sequential loop over the list as given (the same channel
\* count, bins and values), and every trial has contributed once.
C14_OrderIndependent ==
    ComputePLIReturned =>
      /\ accessed = 1..Len(matDataList)
      /\ iTrial = Len(matDataList)
      /\ \A l \in Reorderings(matDataList) :
           /\ Len(l[1]) = Len(vecPLI)
           /\ NoShortTrial(l)
           /\ ComputePLIOf(l, iNfftArg) = vecPLI

\* The part of C14 that holds: for trials of one channel count and one
\* sample count every order of the list gives the tensor returned.
OrderIndependentWhenUniform ==
    (ComputePLIReturned /\ UniformShape /\ ~SampleCountsDiffer) =>
      /\ accessed = 1..Len(matDataList)
      /\ \A l \in Reorderings(matDataList) :
           ComputePLIOf(l, iNfftArg) = vecPLI

\* C15: for T >= 2 trials every unbiased value u lies in [-1/(T-1), 1];
\* with S the sum of signs of its pair and bin, u = (S*S - T)/(T*(T-1));
\* u = 1 exactly where the PLI is 1, u < 0 exactly where T * PLI^2 < 1,
\* and u = -1/(T-1) exactly where the PLI is 0, so every self-pair of the
\* tensor and every self-pair edge of the unbiased Network has the weight
\* -1/(T-1), not 0.
C15_UnbiasedRange ==
    (metric = "USPLI" /\ pc \in { "edges", "done" } /\ Len(matDataList) >= 2) =>
      LET T == Len(matDataList)
      IN  /\ \A q \in Pairs : \A f \in Bins :
               LET S == vecCsdAvg[q[1]][q[2]][f]
                   p == vecPLI[q[1]][q[2]][f]
                   u == vecUnbiasedSquaredPLI[q[1]][q[2]][f]
               IN  /\ u[2] > 0
                   /\ -u[2] <= u[1] * (T - 1)
                   /\ u[1] <= u[2]
                   /\ u[1] * (T * (T - 1)) = u[2] * (S * S - T)
                   /\ (u[1] = u[2]) <=> (p[1] = p[2])
                   /\ (u[1] < 0) <=> (T * p[1] * p[1] < p[2] * p[2])
                   /\ (u[1] * (T - 1) = -u[2]) <=> (p[1] = 0)
          /\ \A i \in 1..iNRows : \A f \in Bins :
               vecUnbiasedSquaredPLI[i][i][f] = Rat(-1, T - 1)
          /\ \A e \in 1..Len(finalNetwork.edges) :
               LET edge == finalNetwork.edges[e]
               IN  edge.start = edge.end =>
                     \A f \in 1..Len(edge.weight) :
                       edge.weight[f] = Rat(-1, T - 1)

\* C15's case: the unbiased Network of two trials of two channels has
\* been returned; the pair (0,1) has the value 1 at a bin where its PLI is
\* 1 and the minimum -1 at a bin where its PLI is 0, and the self-pair
\* edge (1,1) has the weight -1.
C15_Witness ==
    /\ metric = "USPLI"
    /\ pc = "done"
    /\ Len(matDataList) = 2
    /\ iNRows = 2
    /\ \E f \in Bins :
         /\ vecPLI[1][2][f] = << 1, 1 >>
         /\ vecUnbiasedSquaredPLI[1][2][f] = << 1, 1 >>
    /\ \E f \in Bins :
         /\ vecPLI[1][2][f] = << 0, 1 >>
         /\ vecUnbiasedSquaredPLI[1][2][f] = << -1, 1 >>
    /\ finalNetwork.edges[4].start = 1
    /\ finalNetwork.edges[4].end = 1
    /\ \A f \in Bins : finalNetwork.edges[4].weight[f] = << -1, 1 >>

====
